---------------------------- MODULE Spec2Model ----------------------------
(* Model of console/windows.py: palette-support detection, VT-processing     *)
(* enabling, and the console-state queries (color id, cursor position,       *)
(* theme), together with the conhost-to-ANSI color translation table.        *)
(*                                                                           *)
(* Python values are modelled as tagged records so that values of different  *)
(* Python types can sit in the same variable: PyNone, PyInt, PyFloat, PyStr, *)
(* PyTuple.  Python strings that the code inspects character by character    *)
(* (TERM, COLORFGBG) are sequences of one-character strings.                 *)
EXTENDS Integers, Sequences, FiniteSets, TLC

VARIABLES
    env,          \* process environment as read through the env package
    build,        \* sys.getwindowsversion()[2]
    colorama,     \* what is_colorama_initialized() finds: PyNone / PyBool
    screenBuffer, \* std handle -> console screen buffer it is attached to
    mode,         \* console mode of each screen buffer
    console,      \* the console's screen-buffer info: wAttributes, X, Y
    csbi,         \* the CONSOLE_SCREEN_BUFFER_INFO local of the last query
    op,           \* name of the last operation called
    args,         \* its arguments and the outcomes of its kernel32 calls
    ret,          \* its return value
    levels,       \* values `name` took in detect_palette_support, in order
    vt,           \* the tuple enable_vt_processing last built and logged
    log           \* SetConsoleMode calls made by the last operation

vars == <<env, build, colorama, screenBuffer, mode, console, csbi,
          op, args, ret, levels, vt, log>>

-----------------------------------------------------------------------------
(* Python values *)

PyNone == [t |-> "None"]

PyInt(n) == [t |-> "int", v |-> n]

PyBool(b) == [t |-> "bool", v |-> b]

PyStr(s) == [t |-> "str", v |-> s]

\* a float that is the exact quotient num / den
PyFloat(num, den) == [t |-> "float", num |-> num, den |-> den]

PyTuple(s) == [t |-> "tuple", v |-> s]

\* a 16-entry color table, known by the name color_tables gives it
Palette(name) == [t |-> "palette", v |-> name]

\* Python truth value of a value
Truthy(x) ==
    CASE x.t = "None"  -> FALSE
      [] x.t = "int"   -> x.v # 0
      [] x.t = "bool"  -> x.v
      [] x.t = "str"   -> x.v # ""
      [] x.t = "float" -> x.num # 0
      [] x.t = "tuple" -> x.v # <<>>
      [] x.t = "palette" -> TRUE

\* builtin all(): true of the empty sequence
All(s) == \A i \in 1..Len(s) : Truthy(s[i])

-----------------------------------------------------------------------------
(* Character strings *)

\* code point of the characters the theme hint is drawn from
Ord(c) ==
    CASE c = "0" -> 48 [] c = "1" -> 49 [] c = "2" -> 50 [] c = "3" -> 51
      [] c = "4" -> 52 [] c = "5" -> 53 [] c = "6" -> 54 [] c = "7" -> 55
      [] c = "8" -> 56 [] c = "9" -> 57 [] c = ";" -> 59

RECURSIVE StrLess(_, _)
\* str.__lt__: lexicographic by code point, a proper prefix sorts first
StrLess(a, b) ==
    IF b = <<>> THEN FALSE
    ELSE IF a = <<>> THEN TRUE
    ELSE IF Ord(Head(a)) # Ord(Head(b)) THEN Ord(Head(a)) < Ord(Head(b))
    ELSE StrLess(Tail(a), Tail(b))

\* str.startswith
StartsWith(s, p) ==
    Len(p) <= Len(s) /\ SubSeq(s, 1, Len(p)) = p

\* `p in s` for strings
Contains(s, p) ==
    \E i \in 1..(Len(s) - Len(p) + 1) : SubSeq(s, i, i + Len(p) - 1) = p

\* index of the first occurrence of character c in s, 0 when absent
FirstIndex(s, c) ==
    IF \E i \in 1..Len(s) : s[i] = c
    THEN CHOOSE i \in 1..Len(s) : s[i] = c /\ \A j \in 1..(i - 1) : s[j] # c
    ELSE 0

\* str.partition(sep) for a one-character separator
Partition(s, sep) ==
    LET i == FirstIndex(s, sep)
    IN  IF i = 0 THEN <<s, <<>>, <<>>>>
        ELSE <<SubSeq(s, 1, i - 1), <<sep>>, SubSeq(s, i + 1, Len(s))>>

-----------------------------------------------------------------------------
(* Module constants *)

ENABLE_VIRTUAL_TERMINAL_PROCESSING == 4

STD_OUTPUT_HANDLE == -11

STD_ERROR_HANDLE == -12

BUILD_ANSI_AVAIL == 10586

\* build number above which the Fall Creators Update palette applies
BUILD_FCU == 16299

\* bits of wAttributes above the two color nibbles that the color queries are
\* tried on (the c_ushort has 8 of them)
MaxHighBits == 3

RECURSIVE BitAnd(_, _)
\* int.__and__ on naturals
BitAnd(a, b) ==
    IF a = 0 \/ b = 0 THEN 0
    ELSE (a % 2) * (b % 2) + 2 * BitAnd(a \div 2, b \div 2)

RECURSIVE BitOr(_, _)
\* int.__or__ on naturals
BitOr(a, b) ==
    IF a = 0 THEN b
    ELSE IF b = 0 THEN a
    ELSE (IF a % 2 = 1 \/ b % 2 = 1 THEN 1 ELSE 0)
         + 2 * BitOr(a \div 2, b \div 2)

\* the background mask widened by a nibble
_mask_map_wide ==
    [name \in {"foreground", "fg", "background", "bg"} |->
        IF name \in {"foreground", "fg"} THEN 15 ELSE 4080]

_mask_map ==
    [name \in {"foreground", "fg", "background", "bg"} |->
        IF name \in {"foreground", "fg"} THEN 15 ELSE 240]

\* the table with the entry for register 1 left at its own index
_win_to_ansi_offset_map_dup ==
    0 :> 0 @@ 1 :> 1 @@ 2 :> 2 @@ 3 :> 6 @@
    4 :> 1 @@ 5 :> 5 @@ 6 :> 3 @@ 7 :> 7 @@
    8 :> 8 @@ 9 :> 12 @@ 10 :> 10 @@ 11 :> 14 @@
    12 :> 9 @@ 13 :> 13 @@ 14 :> 11 @@ 15 :> 15

\* the table with the light half keeping the conhost order
_win_to_ansi_offset_map_light ==
    0 :> 0 @@ 1 :> 4 @@ 2 :> 2 @@ 3 :> 6 @@
    4 :> 1 @@ 5 :> 5 @@ 6 :> 3 @@ 7 :> 7 @@
    8 :> 8 @@ 9 :> 9 @@ 10 :> 10 @@ 11 :> 11 @@
    12 :> 12 @@ 13 :> 13 @@ 14 :> 14 @@ 15 :> 15

_win_to_ansi_offset_map ==
    0 :> 0 @@ 1 :> 4 @@ 2 :> 2 @@ 3 :> 6 @@
    4 :> 1 @@ 5 :> 5 @@ 6 :> 3 @@ 7 :> 7 @@
    8 :> 8 @@ 9 :> 12 @@ 10 :> 10 @@ 11 :> 14 @@
    12 :> 9 @@ 13 :> 13 @@ 14 :> 11 @@ 15 :> 15

\* conhost color names by register, from the table's comments
ConhostNames ==
    <<"black", "blue", "green", "cyan", "red", "magenta", "yellow", "grey">>

\* ANSI color names by index, from the table's comments
AnsiNames ==
    <<"black", "red", "green", "yellow", "blue", "magenta", "cyan", "gray">>

-----------------------------------------------------------------------------
(* Console-state queries *)

\* a freshly constructed CONSOLE_SCREEN_BUFFER_INFO(): ctypes zero-fills it
ZeroCsbi == [wAttributes |-> 0, X |-> 0, Y |-> 0]

\* kernel32.GetConsoleScreenBufferInfo(stream, byref(csbi)): fills the struct
\* on success and leaves it untouched on failure; its status is not looked at
GetConsoleScreenBufferInfo(readOk) ==
    IF readOk THEN console ELSE ZeroCsbi

\* dict.get(key, default) on an int-keyed dict: a float key finds the int key
\* it is numerically equal to
DictGet(d, key, default) ==
    CASE key.t = "int" ->
            IF key.v \in DOMAIN d THEN PyInt(d[key.v]) ELSE default
      [] key.t = "float" ->
            IF key.num % key.den = 0 /\ (key.num \div key.den) \in DOMAIN d
            THEN PyInt(d[key.num \div key.den])
            ELSE default

\* the table lookup of get_color_id on an int register
to_ansi(r) == DictGet(_win_to_ansi_offset_map, PyInt(r), PyInt(r)).v

\* color_id /= 16 : true division, the result is a float
TrueDiv(n, d) == PyFloat(n, d)

\* x < n for a Python number x and an int n
NumLess(x, n) ==
    CASE x.t = "int"   -> x.v < n
      [] x.t = "float" -> x.num < n * x.den

\* get_color_id(name) given the struct the buffer-info call left behind
get_color_id(name, c) ==
    LET masked   == BitAnd(c.wAttributes, _mask_map[name])
        color_id == IF name \in {"background", "bg"}
                    THEN TrueDiv(masked, 16)
                    ELSE PyInt(masked)
    IN  DictGet(_win_to_ansi_offset_map, color_id, color_id)

\* get_position() given the struct the buffer-info call left behind
get_position(c) == PyTuple(<<c.X + 1, c.Y + 1>>)

\* get_theme() given env.COLORFGBG and the struct a query would leave behind
get_theme(colorfgbg, c) ==
    IF colorfgbg # <<>>
    THEN LET BG == Partition(colorfgbg, ";")[3]
         IN  IF StrLess(BG, <<"8">>) THEN PyStr("dark") ELSE PyStr("light")
    ELSE LET color_id == get_color_id("background", c)
         IN  IF NumLess(color_id, 8) THEN PyStr("dark") ELSE PyStr("light")

ColorNames == {"foreground", "fg", "background", "bg"}

GetColorId(name, readOk) ==
    /\ csbi' = GetConsoleScreenBufferInfo(readOk)
    /\ op'   = "get_color_id"
    /\ args' = [name |-> name, readOk |-> readOk]
    /\ ret'  = get_color_id(name, csbi')
    /\ log'  = <<>>
    /\ UNCHANGED <<env, build, colorama, screenBuffer, mode, console, levels, vt>>

GetPosition(readOk) ==
    /\ csbi' = GetConsoleScreenBufferInfo(readOk)
    /\ op'   = "get_position"
    /\ args' = [name |-> "", readOk |-> readOk]
    /\ ret'  = get_position(csbi')
    /\ log'  = <<>>
    /\ UNCHANGED <<env, build, colorama, screenBuffer, mode, console, levels, vt>>

\* the buffer-info call is made only on the branch without a COLORFGBG hint
GetTheme(readOk) ==
    /\ csbi' = IF env.COLORFGBG # <<>> THEN csbi
               ELSE GetConsoleScreenBufferInfo(readOk)
    /\ op'   = "get_theme"
    /\ args' = [name |-> "", readOk |-> readOk]
    /\ ret'  = get_theme(env.COLORFGBG, csbi')
    /\ log'  = <<>>
    /\ UNCHANGED <<env, build, colorama, screenBuffer, mode, console, levels, vt>>

-----------------------------------------------------------------------------
(* Enabling VT processing *)

Streams == <<STD_OUTPUT_HANDLE, STD_ERROR_HANDLE>>

\* kernel32.SetConsoleMode(handle, value): nonzero and the mode is set on
\* success, zero and the mode is left alone on failure
SetConsoleMode(m, b, value, ok) ==
    [status |-> IF ok THEN 1 ELSE 0,
     mode   |-> IF ok THEN [m EXCEPT ![b] = value] ELSE m]

\* the loop pass with SetConsoleMode given the VT flag alone
VtStep_overwrite(acc, h, sb, getOk, setOk) ==
    LET b == sb[h]
        m == acc.mode
    IN  IF acc.broke THEN acc
        ELSE IF ~getOk THEN [acc EXCEPT !.broke = TRUE]
        ELSE IF BitAnd(m[b], ENABLE_VIRTUAL_TERMINAL_PROCESSING) = 0
        THEN LET value == ENABLE_VIRTUAL_TERMINAL_PROCESSING
                 set   == SetConsoleMode(m, b, value, setOk)
             IN  [acc EXCEPT
                    !.results = Append(@, PyInt(set.status)),
                    !.mode    = set.mode,
                    !.calls   = Append(@, [handle |-> h, value |-> value])]
        ELSE [acc EXCEPT !.results = Append(@, PyStr("Already Enabled"))]

\* one pass of the for loop of enable_vt_processing, on handle h: getOk is
\* the outcome of GetConsoleMode, setOk that of SetConsoleMode; a failed
\* GetConsoleMode breaks out of the loop
VtStep(acc, h, sb, getOk, setOk) ==
    LET b == sb[h]
        m == acc.mode
    IN  IF acc.broke THEN acc
        ELSE IF ~getOk THEN [acc EXCEPT !.broke = TRUE]
        ELSE IF BitAnd(m[b], ENABLE_VIRTUAL_TERMINAL_PROCESSING) = 0
        THEN LET value == BitOr(m[b], ENABLE_VIRTUAL_TERMINAL_PROCESSING)
                 set   == SetConsoleMode(m, b, value, setOk)
             IN  [acc EXCEPT
                    !.results = Append(@, PyInt(set.status)),
                    !.mode    = set.mode,
                    !.calls   = Append(@, [handle |-> h, value |-> value])]
        ELSE [acc EXCEPT !.results = Append(@, PyStr("Already Enabled"))]

\* enable_vt_processing(): the tuple it returns, the modes it leaves and the
\* SetConsoleMode calls it made; the loop runs over (stdout, stderr)
enable_vt_processing(m, sb, getOk, setOk) ==
    LET start == [results |-> <<>>, mode |-> m, calls |-> <<>>,
                  broke |-> FALSE]
        first == VtStep(start, Streams[1], sb,
                        getOk[Streams[1]], setOk[Streams[1]])
    IN  VtStep(first, Streams[2], sb, getOk[Streams[2]], setOk[Streams[2]])

Outcomes == [{STD_OUTPUT_HANDLE, STD_ERROR_HANDLE} -> BOOLEAN]

EnableVtProcessing(getOk, setOk) ==
    \E r \in {enable_vt_processing(mode, screenBuffer, getOk, setOk)} :
        /\ mode' = r.mode
        /\ vt'   = r.results
        /\ log'  = r.calls
        /\ op'   = "enable_vt_processing"
        /\ args' = [getOk |-> getOk, setOk |-> setOk]
        /\ ret'  = PyTuple(r.results)
        /\ UNCHANGED <<env, build, colorama, screenBuffer, console, csbi,
                       levels>>

-----------------------------------------------------------------------------
(* Palette detection *)

\* is_ansi_capable() on Windows
is_ansi_capable(b) == b > BUILD_ANSI_AVAIL

xterm == <<"x", "t", "e", "r", "m">>

color256 == <<"2", "5", "6", "c", "o", "l", "o", "r">>

cygwin == <<"c", "y", "g", "w", "i", "n">>

\* rule 2: colorama_init or TERM.startswith('xterm')
Rule2Matches(e, c) == Truthy(c) \/ StartsWith(e.TERM, xterm)

\* rule 3 with the wrapper required next to the ANSICON hint
Rule3Matches_wrapper(e, c) ==
    (Truthy(c) /\ e.ANSICON # "") \/ Contains(e.TERM, color256)

\* rule 3: ansicon or ('256color' in TERM)
Rule3Matches(e, c) == e.ANSICON # "" \/ Contains(e.TERM, color256)

\* rule 4: env.COLORTERM in ('truecolor', '24bit') or TERM == 'cygwin'
Rule4Matches(e, c) == e.COLORTERM \in {"truecolor", "24bit"} \/ e.TERM = cygwin

\* the else branch with the truecolor check placed before the 256-color one
ElseBranch_reordered(e, c) ==
    LET n2 == IF Rule2Matches(e, c) THEN "basic" ELSE "None"
        n4 == IF Rule4Matches(e, c) THEN "truecolor" ELSE n2
        n3 == IF Rule3Matches(e, c) THEN "extended" ELSE n4
    IN  <<[rule |-> 2, name |-> n2], [rule |-> 3, name |-> n4],
          [rule |-> 4, name |-> n3]>>

\* the else branch of detect_palette_support: the value of `name` after each
\* of its three if statements
ElseBranch(e, c) ==
    LET n2 == IF Rule2Matches(e, c) THEN "basic" ELSE "None"
        n3 == IF Rule3Matches(e, c) THEN "extended" ELSE n2
        n4 == IF Rule4Matches(e, c) THEN "truecolor" ELSE n3
    IN  <<[rule |-> 2, name |-> n2], [rule |-> 3, name |-> n3],
          [rule |-> 4, name |-> n4]>>

\* _find_basic_palette with the OS build looked at before the SSH signal
_find_basic_palette_build_first(name, e, b) ==
    IF b > BUILD_FCU
    THEN <<name, "cmd_1709", Palette("cmd1709_palette4")>>
    ELSE IF e.SSH_CLIENT # ""
    THEN <<name, "ssh (xterm)", Palette("xterm_palette4")>>
    ELSE <<name, "cmd_legacy", Palette("cmd_palette4")>>

\* _find_basic_palette(name): (name, pal_name, basic_palette)
_find_basic_palette(name, e, b) ==
    IF e.SSH_CLIENT # ""
    THEN <<name, "ssh (xterm)", Palette("xterm_palette4")>>
    ELSE IF b > BUILD_FCU
    THEN <<name, "cmd_1709", Palette("cmd1709_palette4")>>
    ELSE <<name, "cmd_legacy", Palette("cmd_palette4")>>

\* detect_palette_support(basic_palette); enable_vt_processing is reached only
\* when is_ansi_capable() is true (short-circuit `and`)
DetectPaletteSupport(basic_palette, getOk, setOk) ==
    \E capable \in {is_ansi_capable(build)} :
    \E r \in {enable_vt_processing(mode, screenBuffer, getOk, setOk)} :
    \E steps \in {IF capable /\ All(r.results)
                  THEN <<[rule |-> 0, name |-> "None"],
                         [rule |-> 1, name |-> "truecolor"]>>
                  ELSE <<[rule |-> 0, name |-> "None"],
                         [rule |-> 1, name |-> "None"]>>
                       \o ElseBranch(env, colorama)} :
    \E name \in {steps[Len(steps)].name} :
    \E found \in {IF name # "None" /\ ~Truthy(basic_palette)
                  THEN _find_basic_palette(name, env, build)
                  ELSE <<name, "Unknown", basic_palette>>} :
        /\ mode'   = IF capable THEN r.mode ELSE mode
        /\ vt'     = IF capable THEN r.results ELSE vt
        /\ log'    = IF capable THEN r.calls ELSE <<>>
        /\ levels' = steps
        /\ op'     = "detect_palette_support"
        /\ args'   = [basic_palette |-> basic_palette, capable |-> capable,
                      pal_name |-> found[2]]
        /\ ret'    = PyTuple(<<found[1], found[3]>>)
        /\ UNCHANGED <<env, build, colorama, screenBuffer, console, csbi>>

-----------------------------------------------------------------------------
(* Environments *)

NoEnv ==
    [TERM |-> <<>>, COLORTERM |-> "", ANSICON |-> "", SSH_CLIENT |-> "",
     COLORFGBG |-> <<>>]

\* state shared by every specification before any operation has run
Idle ==
    /\ csbi = ZeroCsbi
    /\ op = "init"
    /\ args = [name |-> "", readOk |-> TRUE]
    /\ ret = PyNone
    /\ levels = <<>>
    /\ vt = <<>>
    /\ log = <<>>

\* one console: both std handles on the same screen buffer, VT not yet on
PlainConsole ==
    /\ build = BUILD_FCU
    /\ colorama = PyNone
    /\ screenBuffer = (STD_OUTPUT_HANDLE :> 1 @@ STD_ERROR_HANDLE :> 1)
    /\ mode = (1 :> 3 @@ 2 :> 3)

-----------------------------------------------------------------------------
(* Color queries over every 16-bit attribute word *)

InitColor ==
    /\ env = NoEnv
    /\ PlainConsole
    /\ console \in [wAttributes : 0..(2^(8 + MaxHighBits) - 1), X : {0}, Y : {0}]
    /\ Idle

NextColor ==
    \/ \E name \in ColorNames, readOk \in BOOLEAN : GetColorId(name, readOk)
    \/ \E readOk \in BOOLEAN : GetTheme(readOk)

SpecColor == InitColor /\ [][NextColor]_vars

-----------------------------------------------------------------------------
(* Properties of the translation table and of get_color_id *)

Registers == 0..15

\* the register the nibble selected by `name` holds in attribute word w
Nibble(name, w) ==
    IF name \in {"foreground", "fg"} THEN w % 16 ELSE (w \div 16) % 16

\* C7: the register-to-ANSI table is a bijection on 0..15 (every value is a
\* key once and a value once), so its inverse to_register is well defined,
\* to_register(to_ansi(r)) = r and to_ansi(to_register(r)) = r for every r,
\* and the register behind every color id get_color_id returned is recovered
\* by the inverse.
C7_TableIsBijection ==
    LET to_register(i) == CHOOSE r \in Registers : to_ansi(r) = i
    IN  /\ DOMAIN _win_to_ansi_offset_map = Registers
        /\ \A i \in Registers :
              Cardinality({r \in Registers : to_ansi(r) = i}) = 1
        /\ \A r \in Registers :
              /\ to_register(to_ansi(r)) = r
              /\ to_ansi(to_register(r)) = r
        /\ (op = "get_color_id" /\ ret.t = "int" /\ ret.v \in Registers)
              => to_register(ret.v) = Nibble(args.name, csbi.wAttributes)

\* a background query translated register 9 (light blue) to ANSI 12
C7_Witness ==
    /\ op = "get_color_id"
    /\ args.name = "bg"
    /\ Nibble("bg", csbi.wAttributes) = 9
    /\ ret = PyInt(12)

\* C8: for every attribute word v, get_color_id(foreground) is
\* to_ansi(v & 0x0F) and get_color_id(background) is to_ansi((v & 0xF0) >> 4);
\* both are ints in 0..15 that went through the table, whatever the other
\* bits of v are.
C8_ColorIdFromNibble ==
    op = "get_color_id" =>
        /\ ret.t = "int"
        /\ ret.v \in Registers
        /\ ret.v = _win_to_ansi_offset_map[Nibble(args.name, csbi.wAttributes)]

\* a background query on word 0x735, with bits set above both color nibbles
C8_Witness ==
    /\ op = "get_color_id"
    /\ args.name = "background"
    /\ args.readOk
    /\ csbi.wAttributes = 1845
    /\ ret = PyInt(6)

\* the same color under the names the two columns of the table give it
SameColor(a, b) ==
    a = b \/ {a, b} \subseteq {"grey", "gray", "white"}

\* C10: the table sends each conhost register to the ANSI index of the
\* same-named color, keeps 0..7 within 0..7 and has
\* to_ansi(r + 8) = to_ansi(r) + 8; and get_theme without a COLORFGBG hint is
\* dark exactly when bit 7 (background intensity) of the attribute word is
\* clear.
C10_SameColorAndSplit ==
    /\ \A r \in 0..7 :
          /\ to_ansi(r) \in 0..7
          /\ SameColor(ConhostNames[r + 1], AnsiNames[to_ansi(r) + 1])
          /\ to_ansi(r + 8) = to_ansi(r) + 8
    /\ (op = "get_theme" /\ env.COLORFGBG = <<>>) =>
          (ret = PyStr("dark") <=> (csbi.wAttributes \div 128) % 2 = 0)

\* a theme query on a light-cyan background (register 11) answered light
C10_Witness ==
    /\ op = "get_theme"
    /\ env.COLORFGBG = <<>>
    /\ args.readOk
    /\ Nibble("bg", csbi.wAttributes) = 11
    /\ ret = PyStr("light")

-----------------------------------------------------------------------------
(* Theme hints *)

\* longest COLORFGBG value tried
MaxHintLen == 4

\* characters COLORFGBG values are built from
HintChars == {"0", "1", "5", "8", "9", ";"}

\* every string over HintChars of length at most n
Strings(n) == UNION {[1..k -> HintChars] : k \in 0..n}

InitTheme ==
    /\ env \in [TERM : {<<>>}, COLORTERM : {""}, ANSICON : {""},
                SSH_CLIENT : {""}, COLORFGBG : Strings(MaxHintLen)]
    /\ PlainConsole
    /\ console \in [wAttributes : {7, 240}, X : {0}, Y : {0}]
    /\ Idle

NextTheme ==
    \E readOk \in BOOLEAN : GetTheme(readOk)

SpecTheme == InitTheme /\ [][NextTheme]_vars

\* C2: with a COLORFGBG hint get_theme classifies by the background
\* component after the ';': "15;0" gives dark, "0;15" gives light and "0;9"
\* gives light.
C2_HintExamples ==
    op = "get_theme" =>
        /\ env.COLORFGBG = <<"1", "5", ";", "0">> => ret = PyStr("dark")
        /\ env.COLORFGBG = <<"0", ";", "1", "5">> => ret = PyStr("light")
        /\ env.COLORFGBG = <<"0", ";", "9">> => ret = PyStr("light")

-----------------------------------------------------------------------------
(* Queries on a console whose buffer-info read may fail *)

\* largest cursor coordinate tried
MaxCoord == 2

InitQuery ==
    /\ env \in [TERM : {<<>>}, COLORTERM : {""}, ANSICON : {""},
                SSH_CLIENT : {""},
                COLORFGBG : {<<>>, <<"1", "5", ";", "0">>}]
    /\ PlainConsole
    /\ console \in [wAttributes : 0..255, X : 0..MaxCoord, Y : 0..MaxCoord]
    /\ Idle

NextQuery ==
    \/ \E name \in ColorNames, readOk \in BOOLEAN : GetColorId(name, readOk)
    \/ \E readOk \in BOOLEAN : GetPosition(readOk)
    \/ \E readOk \in BOOLEAN : GetTheme(readOk)

SpecQuery == InitQuery /\ [][NextQuery]_vars

\* C3: whenever the GetConsoleScreenBufferInfo read fails, the operation that
\* depends on it returns no value: get_theme without a hint returns None, and
\* get_color_id and get_position return None rather than a color id or
\* coordinates.
C3_FailedReadYieldsNothing ==
    (/\ ~args.readOk
     /\ \/ op \in {"get_color_id", "get_position"}
        \/ op = "get_theme" /\ env.COLORFGBG = <<>>)
        => ret = PyNone

-----------------------------------------------------------------------------
(* Detection over combinations of signals *)

TermValues ==
    { <<>>,
      xterm,
      xterm \o <<"-">> \o color256,
      <<"s", "c", "r", "e", "e", "n", "-">> \o color256,
      cygwin }

\* both std handles on one screen buffer, or each on its own
Attachments ==
    { (STD_OUTPUT_HANDLE :> 1 @@ STD_ERROR_HANDLE :> 1),
      (STD_OUTPUT_HANDLE :> 1 @@ STD_ERROR_HANDLE :> 2) }

\* buffer 2 only has a mode of its own when a handle is attached to it
ModesFor(sb, modes) ==
    {m \in [{1, 2} -> modes] : sb[STD_ERROR_HANDLE] = 1 => m[2] = m[1]}

InitDetect ==
    /\ env \in [TERM : TermValues,
                COLORTERM : {"", "truecolor", "24bit"},
                ANSICON : {"", "80x25 (80x25)"},
                SSH_CLIENT : {"", "10.0.0.5 50212 22"},
                COLORFGBG : {<<>>}]
    /\ build \in {BUILD_ANSI_AVAIL, BUILD_ANSI_AVAIL + 1,
                  BUILD_FCU, BUILD_FCU + 1}
    /\ colorama \in {PyNone, PyBool(FALSE), PyBool(TRUE)}
    /\ screenBuffer \in Attachments
    /\ mode \in ModesFor(screenBuffer, {3, 7})
    /\ console = [wAttributes |-> 7, X |-> 0, Y |-> 0]
    /\ Idle

NextDetect ==
    \E basic_palette \in {PyNone, Palette("custom")},
       getOk \in Outcomes, setOk \in Outcomes :
        DetectPaletteSupport(basic_palette, getOk, setOk)

SpecDetect == InitDetect /\ [][NextDetect]_vars

Detected == op = "detect_palette_support"

\* rule 1 set the level
Rule1Fired == Detected /\ levels[2].name = "truecolor"

\* the else branch with rules 2-4 ran
ElseRan == Detected /\ Len(levels) = 5

Rank(name) ==
    CASE name = "None" -> 0
      [] name = "basic" -> 1
      [] name = "extended" -> 2
      [] name = "truecolor" -> 3

\* C1: rule 1 sets truecolor only when the platform is ANSI-capable and VT
\* processing was enabled (or already on) on both stdout and stderr; a failed
\* GetConsoleMode or SetConsoleMode on either stream leaves the level to
\* rules 2-4.
C1_Rule1NeedsBothStreams ==
    Rule1Fired =>
        /\ is_ansi_capable(build)
        /\ Len(vt) = Len(Streams)
        /\ All(vt)

\* C4: the level never decreases along the rule sequence; once rule 1 sets
\* truecolor no later rule runs; the returned level is the highest level of
\* any matching rule, and it is None (with palette None when no palette was
\* passed) exactly when no rule matches.
C4_LevelNeverDecreases ==
    Detected =>
        LET matching ==
                {0} \cup (IF Rule1Fired THEN {3} ELSE {})
                    \cup (IF ElseRan /\ Rule2Matches(env, colorama)
                          THEN {1} ELSE {})
                    \cup (IF ElseRan /\ Rule3Matches(env, colorama)
                          THEN {2} ELSE {})
                    \cup (IF ElseRan /\ Rule4Matches(env, colorama)
                          THEN {3} ELSE {})
            highest == CHOOSE k \in matching : \A j \in matching : j <= k
        IN  /\ \A i \in 1..(Len(levels) - 1) :
                  Rank(levels[i].name) <= Rank(levels[i + 1].name)
            /\ Rule1Fired => Len(levels) = 2
            /\ Rule1Fired \/ ElseRan
            /\ Rank(ret.v[1]) = highest
            /\ ret.v[1] = levels[Len(levels)].name
            /\ ret.v[1] = "None" <=> matching = {0}
            /\ (ret.v[1] = "None" /\ args.basic_palette = PyNone)
                  => ret.v[2] = PyNone

\* all three of rules 2-4 matched in one pass: basic, extended, truecolor
C4_Witness ==
    /\ ElseRan
    /\ levels[3].name = "basic"
    /\ levels[4].name = "extended"
    /\ levels[5].name = "truecolor"
    /\ ret.v[1] = "truecolor"

\* C5 as stated: rule 3 yields extended only with the wrapper flag together
\* with the ANSICON hint, or with '256color' in TERM; the hint alone does not.
C5_ExtendedNeedsWrapper ==
    (ElseRan /\ levels[4].name = "extended") =>
        \/ Truthy(colorama) /\ env.ANSICON # ""
        \/ Contains(env.TERM, color256)

\* C5 amended: rule 3 raises the level to extended exactly when the ANSICON
\* hint is set, whether or not the colorama wrapper is installed, or TERM
\* contains '256color'.
C5_ExtendedOnHintAlone ==
    ElseRan =>
        (levels[4].name = "extended"
            <=> (env.ANSICON # "" \/ Contains(env.TERM, color256)))

\* ANSICON set, no wrapper, no '256color' in TERM: rule 3 gave extended
C5_Witness ==
    /\ ElseRan
    /\ env.ANSICON # ""
    /\ ~Truthy(colorama)
    /\ ~Contains(env.TERM, color256)
    /\ levels[4].name = "extended"

\* C6: when detection ends with a level and no palette was passed, SSH_CLIENT
\* decides first: set, the xterm palette is returned whatever the other
\* signals and the build are; unset, build > 16299 gives cmd1709 and any other
\* build the legacy cmd palette; the level comes back unchanged.
C6_SshPaletteFirst ==
    (Detected /\ levels[Len(levels)].name # "None"
              /\ args.basic_palette = PyNone) =>
        /\ ret.v[2] = IF env.SSH_CLIENT # "" THEN Palette("xterm_palette4")
                      ELSE IF build > 16299 THEN Palette("cmd1709_palette4")
                      ELSE Palette("cmd_palette4")
        /\ ret.v[1] = levels[Len(levels)].name

\* over SSH on a post-FCU build with wrapper and 256-color signals: xterm
C6_Witness ==
    /\ Detected
    /\ args.basic_palette = PyNone
    /\ env.SSH_CLIENT # ""
    /\ build > 16299
    /\ Truthy(colorama)
    /\ Contains(env.TERM, color256)
    /\ ret.v[1] # "None"
    /\ ret.v[2] = Palette("xterm_palette4")

-----------------------------------------------------------------------------
(* Repeated calls of enable_vt_processing *)

\* console-mode bits tried (the mode is a DWORD)
ModeBits == 3

InitVt ==
    /\ env = NoEnv
    /\ build = BUILD_FCU
    /\ colorama = PyNone
    /\ screenBuffer \in Attachments
    /\ mode \in ModesFor(screenBuffer, 0..(2^ModeBits - 1))
    /\ console = [wAttributes |-> 7, X |-> 0, Y |-> 0]
    /\ Idle

NextVt ==
    \E getOk \in Outcomes, setOk \in Outcomes : EnableVtProcessing(getOk, setOk)

SpecVt == InitVt /\ [][NextVt]_vars

\* the VT flag is set in mode word m
VtOn(m) == (m \div ENABLE_VIRTUAL_TERMINAL_PROCESSING) % 2 = 1

=============================================================================
